---- MODULE Spec2Model ----
(***************************************************************************)
(* Model of pkg/mwclient (client.go): a Client, whose methods serialize on  *)
(* c.mu and drive the process-wide ImageMagick engine through wands.        *)
(*                                                                          *)
(* Every caller (goroutine) is a small program counter machine: it issues a *)
(* call with arguments, runs the method statement by statement, runs the    *)
(* deferred calls in LIFO order at return, and hands the result back.       *)
(* Engine, reader, writer and filesystem outcomes are the environment's     *)
(* choice and are drawn with \E where the code tests them.                  *)
(***************************************************************************)
EXTENDS Integers, Sequences, FiniteSets, TLC

\* ------------------------------------------------------------------ bounds
NumCallers == 2      \* goroutines calling into the one Client (Spec)
MaxDim     == 3      \* largest width/height/target argument and image side
MaxPdfPages == 2     \* largest page count of a decoded PDF, and of maxPages
IntBits    == 8      \* width of the model's int32 words
NumClients == 2      \* Client values made with New() in the process

Callers == 1..NumCallers
\* the values New() has returned: each is a &Client{} with a mutex of its own
Clients == 1..NumClients
NoOne   == 0

\* ------------------------------------------------------------- error kinds
NoError         == "nil"
ErrInvalidInput == "ErrInvalidInput"
ErrProcessing   == "ErrProcessing"
\* an error that wraps neither sentinel: fmt.Errorf("...: %w", err) around the
\* reader's or the writer's own error
ErrUnwrappedIO  == "io error"

\* ------------------------------------------------------------ environment
\* A path argument is modelled by its name together with what the filesystem
\* holds there: nothing, a file no decoder accepts, or an image / document of
\* `pages` pages of width x height pixels with an EXIF orientation tag.
Orientations == {1, 6}      \* EXIF TopLeft (upright) and RightTop (rotated)

Path(name, exists, decodable, x, y, o, n) ==
  [name |-> name, exists |-> exists, decodable |-> decodable,
   width |-> x, height |-> y, orient |-> o, pages |-> n]

EmptyPath   == Path("", FALSE, FALSE, 0, 0, 0, 0)
MissingPath == Path("nonexistent", FALSE, FALSE, 0, 0, 0, 0)
CorruptPath == Path("corrupt", TRUE, FALSE, 0, 0, 0, 0)
ImagePaths(dims) ==
  {Path("image", TRUE, TRUE, x, y, o, 1) : x \in dims, y \in dims, o \in Orientations}
PdfPaths(dims, counts) ==
  {Path("pdf", TRUE, TRUE, x, y, 1, n) : x \in dims, y \in dims, n \in counts}
OutPath     == Path("output", FALSE, FALSE, 0, 0, 0, 0)

\* os.Stat(path) reports that the file does not exist
IsNotExist(path) == ~path.exists

\* io.Reader arguments: nil, a reader over the bytes of an upright image, of
\* a rotated image (EXIF orientation 6), over bytes no decoder accepts, and a
\* reader whose Read returns an error.
NilStream   == "nil"
Readers     == {NilStream, "image bytes", "rotated image bytes", "not an image",
                "failing reader"}
\* io.Writer arguments: nil, a working writer, a writer whose Write fails.
Writers     == {NilStream, "writer", "failing writer"}
Decodable(data) == data \in {"image bytes", "rotated image bytes"}

Formats     == {"", "png"}

\* -------------------------------------------------------------- arithmetic
\* Go's int32(x): x modulo 2^32, read as a signed number.  TLC's own integers
\* are 32 bits wide, so the model keeps the conversions but on words of
\* IntBits bits (and uint on twice as many).
Int32(x) == ((x + 2^(IntBits - 1)) % 2^IntBits) - 2^(IntBits - 1)
Uint(x)  == x % 2^(2 * IntBits)

\* Go's integer division truncates toward zero
Quo(a, b) ==
  IF a >= 0
    THEN (IF b > 0 THEN a \div b ELSE -(a \div (-b)))
    ELSE (IF b > 0 THEN -((-a) \div b) ELSE (-a) \div (-b))

\* uint(side * int32(target) / other), all on int32
AspectDim(side, target, other) ==
  Uint(Quo(Int32(Int32(side) * Int32(target)), Int32(other)))

\* ------------------------------------------------------------------- calls
Ops == {"OpenImage", "GetImageMetadata", "ResizeImage", "ResizeImageFile",
        "ConvertFormat", "ResizeByHeight", "ResizeByWidth", "ConvertPdfToImages"}

\* One call: the method, the client c it is called on and its arguments
\* (fields a method does not take keep their zero value).
NoCall ==
  [op |-> "none", c |-> 0, inputPath |-> EmptyPath, outputPath |-> EmptyPath,
   r |-> NilStream, w |-> NilStream, width |-> 0, height |-> 0, format |-> "",
   target |-> 0, maxPages |-> 0, createMontage |-> FALSE]

CallsOver(paths, pdfs, outs, readers, writers, dims, formats, targets, pages) ==
       {[NoCall EXCEPT !.op = o, !.inputPath = i] :
            o \in {"OpenImage", "GetImageMetadata"}, i \in paths}
  \cup {[NoCall EXCEPT !.op = "ResizeImage", !.r = r, !.w = w, !.width = x,
                       !.height = y, !.format = f] :
            r \in readers, w \in writers, x \in dims, y \in dims, f \in formats}
  \cup {[NoCall EXCEPT !.op = "ResizeImageFile", !.inputPath = i,
                       !.outputPath = u, !.width = x, !.height = y, !.format = f] :
            i \in paths, u \in outs, x \in dims, y \in dims, f \in formats}
  \cup {[NoCall EXCEPT !.op = "ConvertFormat", !.r = r, !.w = w, !.format = f] :
            r \in readers, w \in writers, f \in formats}
  \cup {[NoCall EXCEPT !.op = o, !.inputPath = i, !.outputPath = u, !.target = t] :
            o \in {"ResizeByHeight", "ResizeByWidth"}, i \in paths, u \in outs,
            t \in targets}
  \cup {[NoCall EXCEPT !.op = "ConvertPdfToImages", !.inputPath = i,
                       !.outputPath = u, !.maxPages = m, !.target = t,
                       !.createMontage = b] :
            i \in pdfs, u \in outs, m \in pages, t \in targets, b \in BOOLEAN}

\* Every argument combination over the small domains (one caller at a time).
AllCalls ==
  CallsOver({EmptyPath, MissingPath, CorruptPath} \cup ImagePaths(1..MaxDim),
            {EmptyPath, MissingPath, CorruptPath}
               \cup PdfPaths(1..MaxDim, 1..MaxPdfPages),
            {EmptyPath, OutPath}, Readers, Writers, 0..MaxDim, Formats,
            (-1)..MaxDim, 0..MaxPdfPages)

\* For the concurrent specification: one well-formed call per method, and
\* two calls that fail validation (one of them ahead of the mutex).
SomeCalls ==
  CallsOver({Path("image", TRUE, TRUE, MaxDim, 1, 1, 1)},
            {Path("pdf", TRUE, TRUE, MaxDim, 1, 1, 1)},
            {OutPath}, {"image bytes"}, {"writer"}, {1}, {"png"}, {1}, {0})
  \cup {[NoCall EXCEPT !.op = "ResizeImageFile", !.outputPath = OutPath,
                       !.width = 1, !.height = 1],
        [NoCall EXCEPT !.op = "ResizeImage", !.r = "image bytes", !.w = "writer",
                       !.height = 1]}

\* ------------------------------------------------------------------- state
VARIABLES
  engine,  \* the ImageMagick environment of the process
  mu,      \* mu[c]: the caller holding the mutex of client c, or NoOne
  pc,      \* pc[p]: the statement caller p executes next
  call,    \* call[p]: the call p is making (NoCall when idle)
  defers,  \* defers[p]: p's deferred calls, next to run first
  wands,   \* wands[p]: engine handles p's call created and has not destroyed
  loc,     \* loc[p]: the method's local variables and its wand's image
  log,     \* log[p]: engine functions p's call has invoked, in order
  dest,    \* dest[p]: byte sequences p's call has written to w
  files,   \* files[p]: files p's call has made the engine write
  ret      \* ret[p]: what the call returns

vars == <<engine, mu, pc, call, defers, wands, loc, log, dest, files, ret>>

Set(f, p, v) == [f EXCEPT ![p] = v]

\* handles and deferred calls
Handle(name, idx) == [name |-> name, idx |-> idx]
Unlock            == [fn |-> "Unlock", h |-> Handle("mu", 0)]
Destroy(h)        == [fn |-> "Destroy", h |-> h]

ZeroMeta ==
  [FormatName |-> "", ImageWidth |-> 0, ImageHeight |-> 0,
   ExifOrientation |-> 0, ContentLength |-> 0]

NoLocals ==
  [data |-> "", blob |-> "", imgWidth |-> 0, imgHeight |-> 0, imgOrient |-> 0,
   imgCount |-> 0, imageWidth |-> 0, imageHeight |-> 0, reqWidth |-> 0, reqHeight |-> 0,
   numPages |-> 0, i |-> 0, mwPages |-> <<>>, mwAt |-> 0, curPage |-> 0,
   quality |-> 0, slog |-> {}]

\* slog.Error(msg, "error", err, "page", page): the record joins the call's
\* error log; NoPage when the record carries no page
NoPage == -1
SlogError(l, msg, page) == [l EXCEPT !.slog = @ \cup {[msg |-> msg, page |-> page]}]

NoReturn == [err |-> NoError, meta |-> ZeroMeta]

\* New(): imagick.Initialize(); return &Client{}
Initialized == "initialized"
\* Close(): imagick.Terminate()
Terminated  == "terminated"

Init ==
  /\ engine = Initialized
  /\ mu = [c \in Clients |-> NoOne]
  /\ pc = [p \in Callers |-> "idle"]
  /\ call = [p \in Callers |-> NoCall]
  /\ defers = [p \in Callers |-> <<>>]
  /\ wands = [p \in Callers |-> {}]
  /\ loc = [p \in Callers |-> NoLocals]
  /\ log = [p \in Callers |-> <<>>]
  /\ dest = [p \in Callers |-> <<>>]
  /\ files = [p \in Callers |-> {}]
  /\ ret = [p \in Callers |-> NoReturn]

\* ------------------------------------------------------------ shared steps
Goto(p, l)    == pc' = Set(pc, p, l)
Engine(p, fn) == log' = Set(log, p, Append(log[p], fn))

\* return err: the result is fixed, then the deferred calls run
Return(p, err) ==
  /\ ret' = Set(ret, p, [ret[p] EXCEPT !.err = err])
  /\ Goto(p, "return")

\* (mutant) a Lock that returns at once
MutexFreeNoWait(c) == TRUE

\* (mutant) Lock returns when the mutex of some client is free
MutexFreeSomewhere(c) == \E k \in Clients : mu[k] = NoOne


\* sync.Mutex.Lock returns only when no one holds the mutex
MutexFree(c) == mu[c] = NoOne

\* (mutant) c.mu.Lock() without the deferred Unlock
LockMuNoDefer(p, from, to) ==
  /\ pc[p] = from
  /\ MutexFree(call[p].c)
  /\ mu' = [mu EXCEPT ![call[p].c] = p]
  /\ Goto(p, to)
  /\ UNCHANGED <<engine, call, defers, wands, loc, log, dest, files, ret>>

\* c.mu.Lock(); defer c.mu.Unlock()
LockMu(p, from, to) ==
  /\ pc[p] = from
  /\ MutexFree(call[p].c)
  /\ mu' = [mu EXCEPT ![call[p].c] = p]
  /\ defers' = Set(defers, p, <<Unlock>> \o defers[p])
  /\ Goto(p, to)
  /\ UNCHANGED <<engine, call, wands, loc, log, dest, files, ret>>

\* h := imagick.NewMagickWand(); defer h.Destroy()
NewWand(p, from, to, fn, h) ==
  /\ pc[p] = from
  /\ wands' = Set(wands, p, wands[p] \cup {h})
  /\ defers' = Set(defers, p, <<Destroy(h)>> \o defers[p])
  /\ Engine(p, fn)
  /\ Goto(p, to)
  /\ UNCHANGED <<engine, mu, call, loc, dest, files, ret>>

\* a caller calls a method of one of the clients
Call(p, inputs, clients) ==
  /\ pc[p] = "idle"
  /\ \E c \in inputs, k \in clients :
       /\ call' = Set(call, p, [c EXCEPT !.c = k])
       /\ Goto(p, c.op)
  /\ UNCHANGED <<engine, mu, defers, wands, loc, log, dest, files, ret>>

\* the call is over and the caller is ready for its next call; handles the
\* call never destroyed stay allocated in the engine but are out of reach
Leave(p) ==
  /\ Goto(p, "idle")
  /\ call' = Set(call, p, NoCall)
  /\ wands' = Set(wands, p, {})
  /\ loc' = Set(loc, p, NoLocals)
  /\ log' = Set(log, p, <<>>)
  /\ dest' = Set(dest, p, <<>>)
  /\ files' = Set(files, p, {})
  /\ ret' = Set(ret, p, NoReturn)

\* at return the deferred calls run, last deferred first; after the last of
\* them the call is over
RunDefer(p) ==
  /\ pc[p] = "return"
  /\ defers[p] # <<>>
  /\ UNCHANGED engine
  /\ LET d == Head(defers[p]) IN
       /\ defers' = Set(defers, p, Tail(defers[p]))
       /\ IF d.fn = "Unlock"
            THEN mu' = [mu EXCEPT ![call[p].c] = NoOne]
            ELSE UNCHANGED mu
       /\ IF Tail(defers[p]) = <<>>
            THEN Leave(p)
            ELSE /\ IF d.fn = "Unlock"
                      THEN UNCHANGED <<wands, log>>
                      ELSE /\ wands' = Set(wands, p, wands[p] \ {d.h})
                           /\ Engine(p, "Destroy")
                 /\ UNCHANGED <<pc, call, loc, dest, files, ret>>

\* a return with no deferred call to run
Returned(p) ==
  /\ pc[p] = "return"
  /\ defers[p] = <<>>
  /\ Leave(p)
  /\ UNCHANGED <<engine, mu, defers>>

\* --------------------------------------------------------------- OpenImage
OpenImage_Lock(p) == LockMu(p, "OpenImage", "OpenImage_Validate")

OpenImage_Validate(p) ==
  /\ pc[p] = "OpenImage_Validate"
  /\ IF call[p].inputPath.name = ""
       THEN Return(p, ErrInvalidInput)
       ELSE Goto(p, "OpenImage_NewMagickWand") /\ UNCHANGED ret
  /\ UNCHANGED <<engine, mu, call, defers, wands, loc, log, dest, files>>

OpenImage_NewMagickWand(p) ==
  NewWand(p, "OpenImage_NewMagickWand", "OpenImage_ReadImage", "NewMagickWand",
          Handle("mw", 0))

\* mw.ReadImage(path): fails on a missing or undecodable file, may fail on
\* any other; on success the wand holds the file's image
ReadImageFile(p, from, to) ==
  /\ pc[p] = from
  /\ Engine(p, "ReadImage")
  /\ \/ /\ call[p].inputPath.exists /\ call[p].inputPath.decodable
        /\ loc' = Set(loc, p, [loc[p] EXCEPT
                      !.imgWidth = call[p].inputPath.width,
                      !.imgHeight = call[p].inputPath.height,
                      !.imgOrient = call[p].inputPath.orient,
                      !.imgCount = call[p].inputPath.pages])
        /\ Goto(p, to)
        /\ UNCHANGED ret
     \/ /\ Return(p, ErrProcessing)
        /\ UNCHANGED loc
  /\ UNCHANGED <<engine, mu, call, defers, wands, dest, files>>

OpenImage_ReadImage(p) == ReadImageFile(p, "OpenImage_ReadImage", "OpenImage_Meta")

\* the wand's image after a successful AutoOrientImage: orientation 6 is a
\* quarter turn, so the sides swap; the tag becomes TopLeft
AutoOriented(l) ==
  IF l.imgOrient = 6
    THEN [l EXCEPT !.imgWidth = l.imgHeight, !.imgHeight = l.imgWidth,
                   !.imgOrient = 1]
    ELSE l

\* (mutant) the metadata is read from the re-oriented image
OpenImage_MetaOriented(p) ==
  /\ pc[p] = "OpenImage_Meta"
  /\ \E cl \in {0, 1} :
       ret' = Set(ret, p, [ret[p] EXCEPT !.meta =
                 [FormatName |-> "PNG", ImageWidth |-> AutoOriented(loc[p]).imgWidth,
                  ImageHeight |-> AutoOriented(loc[p]).imgHeight,
                  ExifOrientation |-> AutoOriented(loc[p]).imgOrient,
                  ContentLength |-> cl]])
  /\ log' = Set(log, p, log[p] \o <<"GetImageFormat", "GetImageWidth",
                  "GetImageHeight", "GetOrientation", "GetImageLength">>)
  /\ Goto(p, "OpenImage_AutoOrientImage")
  /\ UNCHANGED <<engine, mu, call, defers, wands, loc, dest, files>>

\* meta = ImageMeta{...}; GetImageLength may fail and leaves ContentLength 0
OpenImage_Meta(p) ==
  /\ pc[p] = "OpenImage_Meta"
  /\ \E cl \in {0, 1} :
       ret' = Set(ret, p, [ret[p] EXCEPT !.meta =
                 [FormatName |-> "PNG", ImageWidth |-> loc[p].imgWidth,
                  ImageHeight |-> loc[p].imgHeight,
                  ExifOrientation |-> loc[p].imgOrient, ContentLength |-> cl]])
  /\ log' = Set(log, p, log[p] \o <<"GetImageFormat", "GetImageWidth",
                  "GetImageHeight", "GetOrientation", "GetImageLength">>)
  /\ Goto(p, "OpenImage_AutoOrientImage")
  /\ UNCHANGED <<engine, mu, call, defers, wands, loc, dest, files>>

\* (mutant) a failed AutoOrientImage ends the call like any other engine error
AutoOrientFatal(p, from, to) ==
  /\ pc[p] = from
  /\ Engine(p, "AutoOrientImage")
  /\ \/ /\ loc' = Set(loc, p, AutoOriented(loc[p]))
        /\ Goto(p, to)
        /\ UNCHANGED ret
     \/ /\ loc' = Set(loc, p, SlogError(loc[p], "Auto-orientation failed", NoPage))
        /\ Return(p, ErrProcessing)
  /\ UNCHANGED <<engine, mu, call, defers, wands, dest, files>>

\* err := mw.AutoOrientImage(); a failure is logged and ignored
AutoOrient(p, from, to) ==
  /\ pc[p] = from
  /\ Engine(p, "AutoOrientImage")
  /\ \/ loc' = Set(loc, p, AutoOriented(loc[p]))
     \/ loc' = Set(loc, p, SlogError(loc[p], "Auto-orientation failed", NoPage))
  /\ Goto(p, to)
  /\ UNCHANGED <<engine, mu, call, defers, wands, dest, files, ret>>

OpenImage_AutoOrientImage(p) ==
  /\ AutoOrient(p, "OpenImage_AutoOrientImage", "OpenImage_Return")

OpenImage_Return(p) ==
  /\ pc[p] = "OpenImage_Return"
  /\ Return(p, NoError)
  /\ UNCHANGED <<engine, mu, call, defers, wands, loc, log, dest, files>>

\* (mutant) GetImageMetadata reads the file itself, without OpenImage's check
\* of the path
GetImageMetadataUnchecked(p) ==
  /\ pc[p] = "GetImageMetadata"
  /\ Goto(p, "OpenImage_NewMagickWand")
  /\ UNCHANGED <<engine, mu, call, defers, wands, loc, log, dest, files, ret>>

\* return c.OpenImage(imagePath)
GetImageMetadata(p) ==
  /\ pc[p] = "GetImageMetadata"
  /\ Goto(p, "OpenImage")
  /\ UNCHANGED <<engine, mu, call, defers, wands, loc, log, dest, files, ret>>

\* ------------------------------------------------- statements used by several methods
\* calls that are not engine functions, as they appear in log
IOCalls == {"io.ReadAll", "w.Write", "os.Stat"}

\* if err := <engine call>; err != nil { return ErrProcessing }
EngineCall(p, from, to, fn) ==
  /\ pc[p] = from
  /\ Engine(p, fn)
  /\ \/ Goto(p, to) /\ UNCHANGED ret
     \/ Return(p, ErrProcessing)
  /\ UNCHANGED <<engine, mu, call, defers, wands, loc, dest, files>>

\* the quality every method asks for
CompressionQuality == 95

\* if err := mw.SetImageCompressionQuality(95); err != nil { return ErrProcessing }
SetQuality(p, from, to) ==
  /\ pc[p] = from
  /\ Engine(p, "SetImageCompressionQuality")
  /\ \/ /\ loc' = Set(loc, p, [loc[p] EXCEPT !.quality = CompressionQuality])
        /\ Goto(p, to)
        /\ UNCHANGED ret
     \/ /\ Return(p, ErrProcessing)
        /\ UNCHANGED loc
  /\ UNCHANGED <<engine, mu, call, defers, wands, dest, files>>

\* data, err := io.ReadAll(r); the error is wrapped as it is, with %w
ReadAll(p, from, to) ==
  /\ pc[p] = from
  /\ Engine(p, "io.ReadAll")
  /\ IF call[p].r = "failing reader"
       THEN Return(p, ErrUnwrappedIO) /\ UNCHANGED loc
       ELSE /\ loc' = Set(loc, p, [loc[p] EXCEPT !.data = call[p].r])
            /\ Goto(p, to)
            /\ UNCHANGED ret
  /\ UNCHANGED <<engine, mu, call, defers, wands, dest, files>>

\* (mutant) the error of mw.ReadImageBlob is dropped
ReadImageBlobUnchecked(p, from, to) ==
  /\ pc[p] = from
  /\ Engine(p, "ReadImageBlob")
  /\ Goto(p, to)
  /\ UNCHANGED <<engine, mu, call, defers, wands, loc, dest, files, ret>>

\* mw.ReadImageBlob(data): bytes no decoder accepts always fail
ReadImageBlob(p, from, to) ==
  /\ pc[p] = from
  /\ Engine(p, "ReadImageBlob")
  /\ \/ /\ Decodable(loc[p].data)
        /\ loc' = Set(loc, p, [loc[p] EXCEPT
                      !.imgWidth = MaxDim, !.imgHeight = 1, !.imgCount = 1,
                      !.imgOrient = IF loc[p].data = "rotated image bytes"
                                      THEN 6 ELSE 1])
        /\ Goto(p, to)
        /\ UNCHANGED ret
     \/ /\ Return(p, ErrProcessing)
        /\ UNCHANGED loc
  /\ UNCHANGED <<engine, mu, call, defers, wands, dest, files>>

\* mw.ResizeImage(cols, rows, FILTER_SINC): the engine refuses a zero side
\* and may fail otherwise
ResizeTo(p, from, to, cols, rows) ==
  /\ pc[p] = from
  /\ Engine(p, "ResizeImage")
  /\ \/ /\ cols > 0 /\ rows > 0
        /\ loc' = Set(loc, p, [loc[p] EXCEPT !.reqWidth = cols, !.reqHeight = rows,
                                              !.imgWidth = cols, !.imgHeight = rows])
        /\ Goto(p, to)
        /\ UNCHANGED ret
     \/ /\ loc' = Set(loc, p, [loc[p] EXCEPT !.reqWidth = cols, !.reqHeight = rows])
        /\ Return(p, ErrProcessing)
  /\ UNCHANGED <<engine, mu, call, defers, wands, dest, files>>

\* (mutant) the format is set whether or not one is given
SetFormatAlways(p, from, to) ==
  /\ pc[p] = from
  /\ Engine(p, "SetImageFormat")
  /\ \/ Goto(p, to) /\ UNCHANGED ret
     \/ Return(p, ErrProcessing)
  /\ UNCHANGED <<engine, mu, call, defers, wands, loc, dest, files>>


\* if format != "" { mw.SetImageFormat(format) }
SetFormatIfGiven(p, from, to) ==
  /\ pc[p] = from
  /\ IF call[p].format = ""
       THEN Goto(p, to) /\ UNCHANGED <<ret, log>>
       ELSE /\ Engine(p, "SetImageFormat")
            /\ \/ Goto(p, to) /\ UNCHANGED ret
               \/ Return(p, ErrProcessing)
  /\ UNCHANGED <<engine, mu, call, defers, wands, loc, dest, files>>

\* (mutant) mw.GetImageBlob without the len(blob) == 0 check
GetImageBlobNoEmptyCheck(p, from, to) ==
  /\ pc[p] = from
  /\ Engine(p, "GetImageBlob")
  /\ \/ Return(p, ErrProcessing) /\ UNCHANGED loc
     \/ /\ \E blob \in {"", "encoded"} :
             loc' = Set(loc, p, [loc[p] EXCEPT !.blob = blob])
        /\ Goto(p, to)
        /\ UNCHANGED ret
  /\ UNCHANGED <<engine, mu, call, defers, wands, dest, files>>

\* blob, err := mw.GetImageBlob(); an empty blob is an error as well
GetImageBlob(p, from, to) ==
  /\ pc[p] = from
  /\ Engine(p, "GetImageBlob")
  /\ \/ Return(p, ErrProcessing) /\ UNCHANGED loc                 \* err != nil
     \/ /\ \E blob \in {"", "encoded"} :
             /\ loc' = Set(loc, p, [loc[p] EXCEPT !.blob = blob])
             /\ IF blob = ""                                      \* len(blob) == 0
                  THEN Return(p, ErrProcessing)
                  ELSE Goto(p, to) /\ UNCHANGED ret
  /\ UNCHANGED <<engine, mu, call, defers, wands, dest, files>>

\* (mutant) a failed Write is reported as ErrProcessing
WriteBlobErrProcessing(p, from) ==
  /\ pc[p] = from
  /\ Engine(p, "w.Write")
  /\ IF call[p].w = "failing writer"
       THEN /\ \/ UNCHANGED dest
               \/ dest' = Set(dest, p, Append(dest[p], "partial"))
            /\ Return(p, ErrProcessing)
       ELSE /\ dest' = Set(dest, p, Append(dest[p], loc[p].blob))
            /\ Return(p, NoError)
  /\ UNCHANGED <<engine, mu, call, defers, wands, loc, files>>


\* w.Write(blob), then return nil; a failing writer may have taken a part of
\* the bytes, and its error is wrapped as it is, with %w
WriteBlob(p, from) ==
  /\ pc[p] = from
  /\ Engine(p, "w.Write")
  /\ IF call[p].w = "failing writer"
       THEN /\ \/ UNCHANGED dest
               \/ dest' = Set(dest, p, Append(dest[p], "partial"))
            /\ Return(p, ErrUnwrappedIO)
       ELSE /\ dest' = Set(dest, p, Append(dest[p], loc[p].blob))
            /\ Return(p, NoError)
  /\ UNCHANGED <<engine, mu, call, defers, wands, loc, files>>

\* a file the engine wrote: the path, the _page<suffix> inserted in it (0: none),
\* the source pages it shows and its size
Written(path, suffix, pages, l) ==
  [path |-> path.name, suffix |-> suffix, pages |-> pages,
   width |-> l.imgWidth, height |-> l.imgHeight]

\* mw.WriteImage(outputPath), then return nil
WriteFile(p, from) ==
  /\ pc[p] = from
  /\ Engine(p, "WriteImage")
  /\ \/ /\ files' = Set(files, p, files[p] \cup
                          {Written(call[p].outputPath, 0, <<1>>, loc[p])})
        /\ Return(p, NoError)
     \/ /\ Return(p, ErrProcessing)
        /\ UNCHANGED files
  /\ UNCHANGED <<engine, mu, call, defers, wands, loc, dest>>

\* ------------------------------------------------------------- ResizeImage
ResizeImage_Lock(p) == LockMu(p, "ResizeImage", "ResizeImage_Validate")

\* (mutant) only a size with both sides zero is rejected
ResizeImage_ValidateBothZero(p) ==
  /\ pc[p] = "ResizeImage_Validate"
  /\ IF call[p].r = NilStream \/ call[p].w = NilStream
       THEN Return(p, ErrInvalidInput)
       ELSE IF call[p].width = 0 /\ call[p].height = 0
              THEN Return(p, ErrInvalidInput)
              ELSE Goto(p, "ResizeImage_NewMagickWand") /\ UNCHANGED ret
  /\ UNCHANGED <<engine, mu, call, defers, wands, loc, log, dest, files>>

ResizeImage_Validate(p) ==
  /\ pc[p] = "ResizeImage_Validate"
  /\ IF call[p].r = NilStream \/ call[p].w = NilStream
       THEN Return(p, ErrInvalidInput)
       ELSE IF call[p].width = 0 \/ call[p].height = 0
              THEN Return(p, ErrInvalidInput)
              ELSE Goto(p, "ResizeImage_NewMagickWand") /\ UNCHANGED ret
  /\ UNCHANGED <<engine, mu, call, defers, wands, loc, log, dest, files>>

ResizeImage_NewMagickWand(p) ==
  NewWand(p, "ResizeImage_NewMagickWand", "ResizeImage_ReadAll", "NewMagickWand",
          Handle("mw", 0))

ResizeImage_ReadAll(p) == ReadAll(p, "ResizeImage_ReadAll", "ResizeImage_ReadImageBlob")

ResizeImage_ReadImageBlob(p) ==
  ReadImageBlob(p, "ResizeImage_ReadImageBlob", "ResizeImage_AutoOrientImage")

ResizeImage_AutoOrientImage(p) ==
  AutoOrient(p, "ResizeImage_AutoOrientImage", "ResizeImage_ResizeImage")

ResizeImage_ResizeImage(p) ==
  ResizeTo(p, "ResizeImage_ResizeImage", "ResizeImage_SetImageCompressionQuality",
           call[p].width, call[p].height)

ResizeImage_SetImageCompressionQuality(p) ==
  SetQuality(p, "ResizeImage_SetImageCompressionQuality", "ResizeImage_SetImageFormat")

ResizeImage_SetImageFormat(p) ==
  SetFormatIfGiven(p, "ResizeImage_SetImageFormat", "ResizeImage_GetImageBlob")

ResizeImage_GetImageBlob(p) ==
  GetImageBlob(p, "ResizeImage_GetImageBlob", "ResizeImage_Write")

ResizeImage_Write(p) == WriteBlob(p, "ResizeImage_Write")

\* --------------------------------------------------------- ResizeImageFile
\* the paths are checked before the mutex is taken; width and height are not
\* checked at all
ResizeImageFile_Validate(p) ==
  /\ pc[p] = "ResizeImageFile"
  /\ IF call[p].inputPath.name = "" \/ call[p].outputPath.name = ""
       THEN Return(p, ErrInvalidInput)
       ELSE Goto(p, "ResizeImageFile_Lock") /\ UNCHANGED ret
  /\ UNCHANGED <<engine, mu, call, defers, wands, loc, log, dest, files>>

ResizeImageFile_Lock(p) ==
  LockMu(p, "ResizeImageFile_Lock", "ResizeImageFile_NewMagickWand")

ResizeImageFile_NewMagickWand(p) ==
  NewWand(p, "ResizeImageFile_NewMagickWand", "ResizeImageFile_ReadImage",
          "NewMagickWand", Handle("mw", 0))

ResizeImageFile_ReadImage(p) ==
  ReadImageFile(p, "ResizeImageFile_ReadImage", "ResizeImageFile_AutoOrientImage")

ResizeImageFile_AutoOrientImage(p) ==
  AutoOrient(p, "ResizeImageFile_AutoOrientImage", "ResizeImageFile_ResizeImage")

ResizeImageFile_ResizeImage(p) ==
  ResizeTo(p, "ResizeImageFile_ResizeImage",
           "ResizeImageFile_SetImageCompressionQuality",
           call[p].width, call[p].height)

ResizeImageFile_SetImageCompressionQuality(p) ==
  SetQuality(p, "ResizeImageFile_SetImageCompressionQuality",
             "ResizeImageFile_SetImageFormat")

ResizeImageFile_SetImageFormat(p) ==
  SetFormatIfGiven(p, "ResizeImageFile_SetImageFormat", "ResizeImageFile_WriteImage")

ResizeImageFile_WriteImage(p) == WriteFile(p, "ResizeImageFile_WriteImage")

\* ----------------------------------------------------------- ConvertFormat
ConvertFormat_Lock(p) == LockMu(p, "ConvertFormat", "ConvertFormat_Validate")

\* (mutant) the writer is not checked
ConvertFormat_ValidateReaderOnly(p) ==
  /\ pc[p] = "ConvertFormat_Validate"
  /\ IF call[p].r = NilStream
       THEN Return(p, ErrInvalidInput)
       ELSE IF call[p].format = ""
              THEN Return(p, ErrInvalidInput)
              ELSE Goto(p, "ConvertFormat_NewMagickWand") /\ UNCHANGED ret
  /\ UNCHANGED <<engine, mu, call, defers, wands, loc, log, dest, files>>

\* (mutant) the format is not checked
ConvertFormat_ValidateNoFormat(p) ==
  /\ pc[p] = "ConvertFormat_Validate"
  /\ IF call[p].r = NilStream \/ call[p].w = NilStream
       THEN Return(p, ErrInvalidInput)
       ELSE Goto(p, "ConvertFormat_NewMagickWand") /\ UNCHANGED ret
  /\ UNCHANGED <<engine, mu, call, defers, wands, loc, log, dest, files>>


ConvertFormat_Validate(p) ==
  /\ pc[p] = "ConvertFormat_Validate"
  /\ IF call[p].r = NilStream \/ call[p].w = NilStream
       THEN Return(p, ErrInvalidInput)
       ELSE IF call[p].format = ""
              THEN Return(p, ErrInvalidInput)
              ELSE Goto(p, "ConvertFormat_NewMagickWand") /\ UNCHANGED ret
  /\ UNCHANGED <<engine, mu, call, defers, wands, loc, log, dest, files>>

ConvertFormat_NewMagickWand(p) ==
  NewWand(p, "ConvertFormat_NewMagickWand", "ConvertFormat_ReadAll",
          "NewMagickWand", Handle("mw", 0))

ConvertFormat_ReadAll(p) ==
  ReadAll(p, "ConvertFormat_ReadAll", "ConvertFormat_ReadImageBlob")

ConvertFormat_ReadImageBlob(p) ==
  ReadImageBlob(p, "ConvertFormat_ReadImageBlob", "ConvertFormat_AutoOrientImage")

ConvertFormat_AutoOrientImage(p) ==
  AutoOrient(p, "ConvertFormat_AutoOrientImage",
             "ConvertFormat_SetImageCompressionQuality")

ConvertFormat_SetImageCompressionQuality(p) ==
  SetQuality(p, "ConvertFormat_SetImageCompressionQuality",
             "ConvertFormat_SetImageFormat")

ConvertFormat_SetImageFormat(p) ==
  EngineCall(p, "ConvertFormat_SetImageFormat", "ConvertFormat_GetImageBlob",
             "SetImageFormat")

ConvertFormat_GetImageBlob(p) ==
  GetImageBlob(p, "ConvertFormat_GetImageBlob", "ConvertFormat_Write")

ConvertFormat_Write(p) == WriteBlob(p, "ConvertFormat_Write")

\* (mutant) only a zero target is rejected, a negative one is not
ValidatePathsAndTargetZeroOnly(p, from, to) ==
  /\ pc[p] = from
  /\ IF call[p].inputPath.name = "" \/ call[p].outputPath.name = ""
       THEN Return(p, ErrInvalidInput)
       ELSE IF call[p].target = 0
              THEN Return(p, ErrInvalidInput)
              ELSE Goto(p, to) /\ UNCHANGED ret
  /\ UNCHANGED <<engine, mu, call, defers, wands, loc, log, dest, files>>


\* ---------------------------------------------------------- ResizeByHeight
\* inputPath == "" || outputPath == "", then target <= 0
ValidatePathsAndTarget(p, from, to) ==
  /\ pc[p] = from
  /\ IF call[p].inputPath.name = "" \/ call[p].outputPath.name = ""
       THEN Return(p, ErrInvalidInput)
       ELSE IF call[p].target <= 0
              THEN Return(p, ErrInvalidInput)
              ELSE Goto(p, to) /\ UNCHANGED ret
  /\ UNCHANGED <<engine, mu, call, defers, wands, loc, log, dest, files>>

\* imageWidth := int32(mw.GetImageWidth()); imageHeight := int32(mw.GetImageHeight())
Dimensions(p, from, to) ==
  /\ pc[p] = from
  /\ log' = Set(log, p, log[p] \o <<"GetImageWidth", "GetImageHeight">>)
  /\ loc' = Set(loc, p, [loc[p] EXCEPT !.imageWidth = Int32(loc[p].imgWidth),
                                        !.imageHeight = Int32(loc[p].imgHeight)])
  /\ Goto(p, to)
  /\ UNCHANGED <<engine, mu, call, defers, wands, dest, files, ret>>

ResizeByHeight_Lock(p) == LockMu(p, "ResizeByHeight", "ResizeByHeight_Validate")

\* no check that the input file exists: ReadImage is the first to find out
ResizeByHeight_Validate(p) ==
  ValidatePathsAndTarget(p, "ResizeByHeight_Validate", "ResizeByHeight_NewMagickWand")

ResizeByHeight_NewMagickWand(p) ==
  NewWand(p, "ResizeByHeight_NewMagickWand", "ResizeByHeight_ReadImage",
          "NewMagickWand", Handle("mw", 0))

ResizeByHeight_ReadImage(p) ==
  ReadImageFile(p, "ResizeByHeight_ReadImage", "ResizeByHeight_AutoOrientImage")

ResizeByHeight_AutoOrientImage(p) ==
  AutoOrient(p, "ResizeByHeight_AutoOrientImage", "ResizeByHeight_Dimensions")

ResizeByHeight_Dimensions(p) ==
  Dimensions(p, "ResizeByHeight_Dimensions", "ResizeByHeight_ResizeImage")

\* targetWidth := uint(imageWidth * int32(targetHeight) / imageHeight)
ResizeByHeight_ResizeImage(p) ==
  ResizeTo(p, "ResizeByHeight_ResizeImage", "ResizeByHeight_SetImageCompressionQuality",
           AspectDim(loc[p].imageWidth, call[p].target, loc[p].imageHeight),
           Uint(call[p].target))

ResizeByHeight_SetImageCompressionQuality(p) ==
  SetQuality(p, "ResizeByHeight_SetImageCompressionQuality",
             "ResizeByHeight_WriteImage")

ResizeByHeight_WriteImage(p) == WriteFile(p, "ResizeByHeight_WriteImage")

\* ----------------------------------------------------------- ResizeByWidth
\* (mutant) the result of os.Stat is not looked at
StatInputIgnored(p, from, to) ==
  /\ pc[p] = from
  /\ Engine(p, "os.Stat")
  /\ Goto(p, to)
  /\ UNCHANGED <<engine, mu, call, defers, wands, loc, dest, files, ret>>

\* if _, err := os.Stat(inputPath); os.IsNotExist(err) { return ErrInvalidInput }
StatInput(p, from, to) ==
  /\ pc[p] = from
  /\ Engine(p, "os.Stat")
  /\ IF IsNotExist(call[p].inputPath)
       THEN Return(p, ErrInvalidInput)
       ELSE Goto(p, to) /\ UNCHANGED ret
  /\ UNCHANGED <<engine, mu, call, defers, wands, loc, dest, files>>

ResizeByWidth_Lock(p) == LockMu(p, "ResizeByWidth", "ResizeByWidth_Validate")

ResizeByWidth_Validate(p) ==
  ValidatePathsAndTarget(p, "ResizeByWidth_Validate", "ResizeByWidth_Stat")

ResizeByWidth_Stat(p) ==
  StatInput(p, "ResizeByWidth_Stat", "ResizeByWidth_NewMagickWand")

ResizeByWidth_NewMagickWand(p) ==
  NewWand(p, "ResizeByWidth_NewMagickWand", "ResizeByWidth_ReadImage",
          "NewMagickWand", Handle("mw", 0))

ResizeByWidth_ReadImage(p) ==
  ReadImageFile(p, "ResizeByWidth_ReadImage", "ResizeByWidth_AutoOrientImage")

ResizeByWidth_AutoOrientImage(p) ==
  AutoOrient(p, "ResizeByWidth_AutoOrientImage", "ResizeByWidth_Dimensions")

ResizeByWidth_Dimensions(p) ==
  Dimensions(p, "ResizeByWidth_Dimensions", "ResizeByWidth_ResizeImage")

\* targetHeight := uint(imageHeight * int32(targetWidth) / imageWidth)
ResizeByWidth_ResizeImage(p) ==
  ResizeTo(p, "ResizeByWidth_ResizeImage", "ResizeByWidth_SetImageCompressionQuality",
           Uint(call[p].target),
           AspectDim(loc[p].imageHeight, call[p].target, loc[p].imageWidth))

ResizeByWidth_SetImageCompressionQuality(p) ==
  SetQuality(p, "ResizeByWidth_SetImageCompressionQuality",
             "ResizeByWidth_WriteImage")

ResizeByWidth_WriteImage(p) == WriteFile(p, "ResizeByWidth_WriteImage")

\* ------------------------------------------------------ ConvertPdfToImages
ConvertPdfToImages_Lock(p) ==
  LockMu(p, "ConvertPdfToImages", "ConvertPdfToImages_Validate")

ConvertPdfToImages_Validate(p) ==
  ValidatePathsAndTarget(p, "ConvertPdfToImages_Validate", "ConvertPdfToImages_Stat")

ConvertPdfToImages_Stat(p) ==
  StatInput(p, "ConvertPdfToImages_Stat", "ConvertPdfToImages_NewPdfWand")

\* pdfWand := imagick.NewMagickWand(); defer pdfWand.Destroy()
ConvertPdfToImages_NewPdfWand(p) ==
  NewWand(p, "ConvertPdfToImages_NewPdfWand", "ConvertPdfToImages_SetResolution",
          "NewMagickWand", Handle("pdfWand", 0))

ConvertPdfToImages_SetResolution(p) ==
  EngineCall(p, "ConvertPdfToImages_SetResolution", "ConvertPdfToImages_ReadImage",
             "SetResolution")

ConvertPdfToImages_ReadImage(p) ==
  ReadImageFile(p, "ConvertPdfToImages_ReadImage", "ConvertPdfToImages_NumPages")

\* (mutant) maxPages is not looked at
LimitPagesUnlimited(total, maxPages) == total

\* numPages := pdfWand.GetNumberImages()
\* if maxPages > 0 && int(numPages) > maxPages { numPages = uint(maxPages) }
LimitPages(total, maxPages) ==
  IF maxPages > 0 /\ total > maxPages THEN Uint(maxPages) ELSE total

ConvertPdfToImages_NumPages(p) ==
  /\ pc[p] = "ConvertPdfToImages_NumPages"
  /\ Engine(p, "GetNumberImages")
  /\ loc' = Set(loc, p, [loc[p] EXCEPT
                  !.numPages = LimitPages(loc[p].imgCount, call[p].maxPages)])
  /\ Goto(p, "ConvertPdfToImages_NewMagickWand")
  /\ UNCHANGED <<engine, mu, call, defers, wands, dest, files, ret>>

\* mw := imagick.NewMagickWand(); defer mw.Destroy()
ConvertPdfToImages_NewMagickWand(p) ==
  NewWand(p, "ConvertPdfToImages_NewMagickWand", "ConvertPdfToImages_Loop",
          "NewMagickWand", Handle("mw", 0))

\* the locals of one loop iteration go out of scope at its end
EndOfIteration(l) ==
  [l EXCEPT !.i = l.i + 1, !.imageWidth = 0, !.imageHeight = 0,
            !.reqWidth = 0, !.reqHeight = 0, !.curPage = 0, !.quality = 0]

\* for i := 0; i < int(numPages); i++
ConvertPdfToImages_Loop(p) ==
  /\ pc[p] = "ConvertPdfToImages_Loop"
  /\ IF loc[p].i < loc[p].numPages
       THEN Goto(p, "ConvertPdfToImages_GetImage")
       ELSE IF call[p].createMontage
              THEN Goto(p, "ConvertPdfToImages_NewDrawingWand")
              ELSE Goto(p, "ConvertPdfToImages_Return")
  /\ UNCHANGED <<engine, mu, call, defers, wands, loc, log, dest, files, ret>>

\* pdfWand.SetIteratorIndex(i); pageImg := pdfWand.GetImage()
\* pageImg is a new wand, and nothing destroys it
ConvertPdfToImages_GetImage(p) ==
  /\ pc[p] = "ConvertPdfToImages_GetImage"
  /\ log' = Set(log, p, log[p] \o <<"SetIteratorIndex", "GetImage">>)
  /\ wands' = Set(wands, p, wands[p] \cup {Handle("pageImg", loc[p].i)})
  /\ Goto(p, "ConvertPdfToImages_AddImage")
  /\ UNCHANGED <<engine, mu, call, defers, loc, dest, files, ret>>

\* (mutant) the new image goes to the head of the list
InsertFirst(seq, at, v) == <<v>> \o seq


\* the image list of a wand after MagickAddImage at iterator position `at`:
\* the new image goes after the current one
InsertAfter(seq, at, v) == SubSeq(seq, 1, at) \o <<v>> \o SubSeq(seq, at + 1, Len(seq))

\* (mutant) every page is saved on its own, montage or not
ConvertPdfToImages_AddImageAlwaysSave(p) ==
  /\ pc[p] = "ConvertPdfToImages_AddImage"
  /\ Engine(p, "AddImage")
  /\ \/ /\ loc' = Set(loc, p, [loc[p] EXCEPT
                        !.mwPages = InsertAfter(loc[p].mwPages, loc[p].mwAt, loc[p].i + 1),
                        !.mwAt = loc[p].mwAt + 1])
        /\ Goto(p, "ConvertPdfToImages_GetCurrent")
     \/ /\ loc' = Set(loc, p, EndOfIteration(
                        SlogError(loc[p], "Failed to add page image", loc[p].i)))
        /\ Goto(p, "ConvertPdfToImages_Loop")
  /\ UNCHANGED <<engine, mu, call, defers, wands, dest, files, ret>>

\* err := mw.AddImage(pageImg); on an error: log, continue
ConvertPdfToImages_AddImage(p) ==
  /\ pc[p] = "ConvertPdfToImages_AddImage"
  /\ Engine(p, "AddImage")
  /\ \/ /\ loc' = Set(loc, p, [loc[p] EXCEPT
                        !.mwPages = InsertAfter(loc[p].mwPages, loc[p].mwAt, loc[p].i + 1),
                        !.mwAt = loc[p].mwAt + 1,
                        !.i = IF call[p].createMontage THEN loc[p].i + 1 ELSE loc[p].i])
        /\ IF call[p].createMontage
             THEN Goto(p, "ConvertPdfToImages_Loop")
             ELSE Goto(p, "ConvertPdfToImages_GetCurrent")
     \/ /\ loc' = Set(loc, p, EndOfIteration(
                        SlogError(loc[p], "Failed to add page image", loc[p].i)))
        /\ Goto(p, "ConvertPdfToImages_Loop")
  /\ UNCHANGED <<engine, mu, call, defers, wands, dest, files, ret>>

\* mw.SetIteratorIndex(i) moves the iterator only when mw has an image i
SetIteratorIndex(l, idx) ==
  IF idx < Len(l.mwPages) THEN [l EXCEPT !.mwAt = idx + 1] ELSE l

\* mw.SetIteratorIndex(i); currentImg := mw.GetImage()
ConvertPdfToImages_GetCurrent(p) ==
  /\ pc[p] = "ConvertPdfToImages_GetCurrent"
  /\ log' = Set(log, p, log[p] \o <<"SetIteratorIndex", "GetImage">>)
  /\ wands' = Set(wands, p, wands[p] \cup {Handle("currentImg", loc[p].i)})
  /\ LET l == SetIteratorIndex(loc[p], loc[p].i) IN
       loc' = Set(loc, p, [l EXCEPT !.curPage = l.mwPages[l.mwAt],
                                     !.imgWidth = call[p].inputPath.width,
                                     !.imgHeight = call[p].inputPath.height,
                                     !.imgOrient = call[p].inputPath.orient])
  /\ Goto(p, "ConvertPdfToImages_NewPixelWand")
  /\ UNCHANGED <<engine, mu, call, defers, dest, files, ret>>

\* white := imagick.NewPixelWand(); defer white.Destroy()
ConvertPdfToImages_NewPixelWand(p) ==
  NewWand(p, "ConvertPdfToImages_NewPixelWand", "ConvertPdfToImages_MergeImageLayers",
          "NewPixelWand", Handle("white", loc[p].i))

\* white.SetColor("white"); currentImg.SetImageBackgroundColor(white)
\* flat := currentImg.MergeImageLayers(IMAGE_LAYER_FLATTEN)
\* currentImg.Destroy(); currentImg = flat; defer currentImg.Destroy()
ConvertPdfToImages_MergeImageLayers(p) ==
  /\ pc[p] = "ConvertPdfToImages_MergeImageLayers"
  /\ log' = Set(log, p, log[p] \o <<"SetColor", "SetImageBackgroundColor",
                                    "MergeImageLayers", "Destroy">>)
  /\ wands' = Set(wands, p, (wands[p] \ {Handle("currentImg", loc[p].i)})
                              \cup {Handle("flat", loc[p].i)})
  /\ defers' = Set(defers, p, <<Destroy(Handle("flat", loc[p].i))>> \o defers[p])
  /\ Goto(p, "ConvertPdfToImages_AutoOrientImage")
  /\ UNCHANGED <<engine, mu, call, loc, dest, files, ret>>

ConvertPdfToImages_AutoOrientImage(p) ==
  AutoOrient(p, "ConvertPdfToImages_AutoOrientImage", "ConvertPdfToImages_Dimensions")

ConvertPdfToImages_Dimensions(p) ==
  Dimensions(p, "ConvertPdfToImages_Dimensions", "ConvertPdfToImages_ResizeImage")

\* targetWidth := uint(imageWidth * int32(targetHeight) / imageHeight)
\* currentImg.ResizeImage(targetWidth, uint(targetHeight), FILTER_SINC); on an
\* error: log, continue
ConvertPdfToImages_ResizeImage(p) ==
  /\ pc[p] = "ConvertPdfToImages_ResizeImage"
  /\ Engine(p, "ResizeImage")
  /\ LET cols == AspectDim(loc[p].imageWidth, call[p].target, loc[p].imageHeight)
         rows == Uint(call[p].target)
     IN \/ /\ cols > 0 /\ rows > 0
           /\ loc' = Set(loc, p, [loc[p] EXCEPT !.reqWidth = cols, !.reqHeight = rows,
                                                 !.imgWidth = cols, !.imgHeight = rows])
           /\ Goto(p, "ConvertPdfToImages_SetImageCompressionQuality")
        \/ /\ loc' = Set(loc, p, EndOfIteration(
                           SlogError(loc[p], "Failed to resize page image", loc[p].i)))
           /\ Goto(p, "ConvertPdfToImages_Loop")
  /\ UNCHANGED <<engine, mu, call, defers, wands, dest, files, ret>>

\* currentImg.SetImageCompressionQuality(95); an error is logged, no more
ConvertPdfToImages_SetImageCompressionQuality(p) ==
  /\ pc[p] = "ConvertPdfToImages_SetImageCompressionQuality"
  /\ Engine(p, "SetImageCompressionQuality")
  /\ \/ loc' = Set(loc, p, [loc[p] EXCEPT !.quality = CompressionQuality])
     \/ loc' = Set(loc, p, SlogError(loc[p], "Failed to set compression quality",
                                      loc[p].i))
  /\ Goto(p, "ConvertPdfToImages_WriteImage")
  /\ UNCHANGED <<engine, mu, call, defers, wands, dest, files, ret>>

\* (mutant) the page number is inserted even when there is one page
PageSuffixAlways(numPages, i) == i + 1

\* pageOutputPath: outputPath, with _page<i+1> before the extension when
\* numPages > 1; 0 stands for no suffix
PageSuffix(numPages, i) == IF numPages > 1 THEN i + 1 ELSE 0

\* (mutant) a page that cannot be written ends the call with an error
ConvertPdfToImages_WriteImageFatal(p) ==
  /\ pc[p] = "ConvertPdfToImages_WriteImage"
  /\ Engine(p, "WriteImage")
  /\ \/ /\ files' = Set(files, p, files[p] \cup
                          {Written(call[p].outputPath,
                                   PageSuffix(loc[p].numPages, loc[p].i),
                                   <<loc[p].curPage>>, loc[p])})
        /\ loc' = Set(loc, p, EndOfIteration(loc[p]))
        /\ Goto(p, "ConvertPdfToImages_Loop")
        /\ UNCHANGED ret
     \/ /\ UNCHANGED files
        /\ loc' = Set(loc, p, SlogError(loc[p], "Failed to write page image", loc[p].i))
        /\ Return(p, ErrProcessing)
  /\ UNCHANGED <<engine, mu, call, defers, wands, dest>>

\* currentImg.WriteImage(pageOutputPath); an error is logged, no more
ConvertPdfToImages_WriteImage(p) ==
  /\ pc[p] = "ConvertPdfToImages_WriteImage"
  /\ Engine(p, "WriteImage")
  /\ \/ /\ files' = Set(files, p, files[p] \cup
                          {Written(call[p].outputPath,
                                   PageSuffix(loc[p].numPages, loc[p].i),
                                   <<loc[p].curPage>>, loc[p])})
        /\ loc' = Set(loc, p, EndOfIteration(loc[p]))
     \/ /\ UNCHANGED files
        /\ loc' = Set(loc, p, EndOfIteration(
                        SlogError(loc[p], "Failed to write page image", loc[p].i)))
  /\ Goto(p, "ConvertPdfToImages_Loop")
  /\ UNCHANGED <<engine, mu, call, defers, wands, dest, ret>>

\* dw := imagick.NewDrawingWand(); defer dw.Destroy()
ConvertPdfToImages_NewDrawingWand(p) ==
  NewWand(p, "ConvertPdfToImages_NewDrawingWand", "ConvertPdfToImages_MontageImage",
          "NewDrawingWand", Handle("dw", 0))

\* montageWand := mw.MontageImage(dw, "1x", "x<targetHeight>", ...)
\* defer montageWand.Destroy()
ConvertPdfToImages_MontageImage(p) ==
  NewWand(p, "ConvertPdfToImages_MontageImage", "ConvertPdfToImages_MontageQuality",
          "MontageImage", Handle("montageWand", 0))

\* montageWand.SetImageCompressionQuality(95); an error is logged, no more
ConvertPdfToImages_MontageQuality(p) ==
  /\ pc[p] = "ConvertPdfToImages_MontageQuality"
  /\ Engine(p, "SetImageCompressionQuality")
  /\ \/ loc' = Set(loc, p, [loc[p] EXCEPT !.quality = CompressionQuality])
     \/ loc' = Set(loc, p, SlogError(loc[p],
                      "Failed to set montage compression quality", NoPage))
  /\ Goto(p, "ConvertPdfToImages_MontageWrite")
  /\ UNCHANGED <<engine, mu, call, defers, wands, dest, files, ret>>

\* (mutant) a montage that cannot be written is logged like a page
ConvertPdfToImages_MontageWriteLogged(p) ==
  /\ pc[p] = "ConvertPdfToImages_MontageWrite"
  /\ Engine(p, "WriteImage")
  /\ \/ files' = Set(files, p, files[p] \cup
                       {Written(call[p].outputPath, 0, loc[p].mwPages, loc[p])})
     \/ UNCHANGED files
  /\ Goto(p, "ConvertPdfToImages_Return")
  /\ UNCHANGED <<engine, mu, call, defers, wands, loc, dest, ret>>

\* montageWand.WriteImage(outputPath); an error is returned
ConvertPdfToImages_MontageWrite(p) ==
  /\ pc[p] = "ConvertPdfToImages_MontageWrite"
  /\ Engine(p, "WriteImage")
  /\ \/ /\ files' = Set(files, p, files[p] \cup
                          {Written(call[p].outputPath, 0, loc[p].mwPages, loc[p])})
        /\ Goto(p, "ConvertPdfToImages_Return")
        /\ UNCHANGED ret
     \/ /\ Return(p, ErrProcessing)
        /\ UNCHANGED files
  /\ UNCHANGED <<engine, mu, call, defers, wands, loc, dest>>

ConvertPdfToImages_Return(p) ==
  /\ pc[p] = "ConvertPdfToImages_Return"
  /\ Return(p, NoError)
  /\ UNCHANGED <<engine, mu, call, defers, wands, loc, log, dest, files>>

\* -------------------------------------------------------------------- Next
Step(p) ==
  \/ RunDefer(p)
  \/ Returned(p)
  \/ OpenImage_Lock(p)
  \/ OpenImage_Validate(p)
  \/ OpenImage_NewMagickWand(p)
  \/ OpenImage_ReadImage(p)
  \/ OpenImage_Meta(p)
  \/ OpenImage_AutoOrientImage(p)
  \/ OpenImage_Return(p)
  \/ GetImageMetadata(p)
  \/ ResizeImage_Lock(p)
  \/ ResizeImage_Validate(p)
  \/ ResizeImage_NewMagickWand(p)
  \/ ResizeImage_ReadAll(p)
  \/ ResizeImage_ReadImageBlob(p)
  \/ ResizeImage_AutoOrientImage(p)
  \/ ResizeImage_ResizeImage(p)
  \/ ResizeImage_SetImageCompressionQuality(p)
  \/ ResizeImage_SetImageFormat(p)
  \/ ResizeImage_GetImageBlob(p)
  \/ ResizeImage_Write(p)
  \/ ResizeImageFile_Validate(p)
  \/ ResizeImageFile_Lock(p)
  \/ ResizeImageFile_NewMagickWand(p)
  \/ ResizeImageFile_ReadImage(p)
  \/ ResizeImageFile_AutoOrientImage(p)
  \/ ResizeImageFile_ResizeImage(p)
  \/ ResizeImageFile_SetImageCompressionQuality(p)
  \/ ResizeImageFile_SetImageFormat(p)
  \/ ResizeImageFile_WriteImage(p)
  \/ ConvertFormat_Lock(p)
  \/ ConvertFormat_Validate(p)
  \/ ConvertFormat_NewMagickWand(p)
  \/ ConvertFormat_ReadAll(p)
  \/ ConvertFormat_ReadImageBlob(p)
  \/ ConvertFormat_AutoOrientImage(p)
  \/ ConvertFormat_SetImageCompressionQuality(p)
  \/ ConvertFormat_SetImageFormat(p)
  \/ ConvertFormat_GetImageBlob(p)
  \/ ConvertFormat_Write(p)
  \/ ResizeByHeight_Lock(p)
  \/ ResizeByHeight_Validate(p)
  \/ ResizeByHeight_NewMagickWand(p)
  \/ ResizeByHeight_ReadImage(p)
  \/ ResizeByHeight_AutoOrientImage(p)
  \/ ResizeByHeight_Dimensions(p)
  \/ ResizeByHeight_ResizeImage(p)
  \/ ResizeByHeight_SetImageCompressionQuality(p)
  \/ ResizeByHeight_WriteImage(p)
  \/ ResizeByWidth_Lock(p)
  \/ ResizeByWidth_Validate(p)
  \/ ResizeByWidth_Stat(p)
  \/ ResizeByWidth_NewMagickWand(p)
  \/ ResizeByWidth_ReadImage(p)
  \/ ResizeByWidth_AutoOrientImage(p)
  \/ ResizeByWidth_Dimensions(p)
  \/ ResizeByWidth_ResizeImage(p)
  \/ ResizeByWidth_SetImageCompressionQuality(p)
  \/ ResizeByWidth_WriteImage(p)
  \/ ConvertPdfToImages_Lock(p)
  \/ ConvertPdfToImages_Validate(p)
  \/ ConvertPdfToImages_Stat(p)
  \/ ConvertPdfToImages_NewPdfWand(p)
  \/ ConvertPdfToImages_SetResolution(p)
  \/ ConvertPdfToImages_ReadImage(p)
  \/ ConvertPdfToImages_NumPages(p)
  \/ ConvertPdfToImages_NewMagickWand(p)
  \/ ConvertPdfToImages_Loop(p)
  \/ ConvertPdfToImages_GetImage(p)
  \/ ConvertPdfToImages_AddImage(p)
  \/ ConvertPdfToImages_GetCurrent(p)
  \/ ConvertPdfToImages_NewPixelWand(p)
  \/ ConvertPdfToImages_MergeImageLayers(p)
  \/ ConvertPdfToImages_AutoOrientImage(p)
  \/ ConvertPdfToImages_Dimensions(p)
  \/ ConvertPdfToImages_ResizeImage(p)
  \/ ConvertPdfToImages_SetImageCompressionQuality(p)
  \/ ConvertPdfToImages_WriteImage(p)
  \/ ConvertPdfToImages_NewDrawingWand(p)
  \/ ConvertPdfToImages_MontageImage(p)
  \/ ConvertPdfToImages_MontageQuality(p)
  \/ ConvertPdfToImages_MontageWrite(p)
  \/ ConvertPdfToImages_Return(p)

\* every caller calls the methods of the same client
Next == \E p \in Callers : Call(p, SomeCalls, {1}) \/ Step(p)

Spec == Init /\ [][Next]_vars

\* One caller at a time, over every argument combination
CallNext == Call(1, AllCalls, {1}) \/ Step(1)

CallSpec == Init /\ [][CallNext]_vars

\* ------------------------------------------------------- the engine's life
\* func (c *Client) Close() { imagick.Terminate() }: c.mu is not taken, and
\* nothing of c is read; the caller is between two calls of its own
Close(p, k) ==
  /\ pc[p] = "idle"
  /\ k \in Clients
  /\ engine = Initialized
  /\ engine' = Terminated
  /\ UNCHANGED <<mu, pc, call, defers, wands, loc, log, dest, files, ret>>

\* Using or destroying a wand after imagick.Terminate() is undefined: the
\* call may go on as if nothing had happened (its ordinary steps), or the
\* process dies on the spot
Fault(p) ==
  /\ engine = Terminated
  /\ wands[p] # {}
  /\ pc' = [q \in Callers |-> "dead"]
  /\ UNCHANGED <<engine, mu, call, defers, wands, loc, log, dest, files, ret>>

\* Two goroutines are enough for two operations to meet, and for a Close to
\* meet an operation
ProcessCallers == {p \in Callers : p <= 2}

\* Several clients in one process, one of which is closed at some moment; no
\* method is called once the engine is terminated
ProcessNext ==
  \E p \in ProcessCallers :
     \/ engine = Initialized /\ Call(p, SomeCalls, Clients)
     \/ Step(p)
     \/ \E k \in Clients : Close(p, k)
     \/ Fault(p)

ProcessSpec == Init /\ [][ProcessNext]_vars


\* ------------------------------------------------- the aspect-ratio arithmetic
\* the largest int32
MaxInt32 == 2^(IntBits - 1) - 1

\* image sides and targets from the smallest to the largest int32
ArithDims == {1, 2^(IntBits - 2), MaxInt32}

\* ResizeByHeight and ResizeByWidth on existing images of such sides
ArithCalls ==
  {c \in CallsOver(ImagePaths(ArithDims), {}, {OutPath}, {}, {}, {}, {}, ArithDims, {}) :
      c.op \in {"ResizeByHeight", "ResizeByWidth"}}

ArithNext ==
  \/ Call(1, ArithCalls, {1})
  \/ RunDefer(1)
  \/ ResizeByHeight_Lock(1)
  \/ ResizeByHeight_Validate(1)
  \/ ResizeByHeight_NewMagickWand(1)
  \/ ResizeByHeight_ReadImage(1)
  \/ ResizeByHeight_AutoOrientImage(1)
  \/ ResizeByHeight_Dimensions(1)
  \/ ResizeByHeight_ResizeImage(1)
  \/ ResizeByHeight_SetImageCompressionQuality(1)
  \/ ResizeByHeight_WriteImage(1)
  \/ ResizeByWidth_Lock(1)
  \/ ResizeByWidth_Validate(1)
  \/ ResizeByWidth_Stat(1)
  \/ ResizeByWidth_NewMagickWand(1)
  \/ ResizeByWidth_ReadImage(1)
  \/ ResizeByWidth_AutoOrientImage(1)
  \/ ResizeByWidth_Dimensions(1)
  \/ ResizeByWidth_ResizeImage(1)
  \/ ResizeByWidth_SetImageCompressionQuality(1)
  \/ ResizeByWidth_WriteImage(1)

ArithSpec == Init /\ [][ArithNext]_vars


\* Engine, reader, writer and filesystem calls return, and the mutex is fair:
\* a caller that can take a step again and again takes one.  Nothing makes a
\* caller start a call.
FairSpec == Spec /\ \A p \in Callers : SF_vars(Step(p))

\* ------------------------------------------------------------------ claims
Range(seq) == {seq[k] : k \in 1..Len(seq)}
\* p's call has executed its return statement: the result is fixed, the
\* deferred calls run next
Returning(p) == pc[p] = "return"
PendingDestroy(p) == \E k \in 1..Len(defers[p]) : defers[p][k].fn = "Destroy"
EngineFns(p) == Range(log[p]) \ IOCalls

\* functions that hand out a new engine handle
Creators == {"NewMagickWand", "NewPixelWand", "NewDrawingWand", "GetImage",
             "MergeImageLayers", "MontageImage"}

\* p has created an engine handle and has not yet destroyed the last one it
\* is going to destroy
InWandSection(p) ==
  /\ Range(log[p]) \cap Creators # {}
  /\ Returning(p) => PendingDestroy(p)

\* p holds the mutex of a client
Holds(p) == \E c \in Clients : mu[c] = p

\* p has called a method and waits for c.mu
AtLock(p) ==
  pc[p] \in {"OpenImage", "ResizeImage", "ResizeImageFile_Lock", "ConvertFormat",
            "ResizeByHeight", "ResizeByWidth", "ConvertPdfToImages"}

\* C1: at every moment at most one caller is between creating its first
\* engine handle and destroying its last one, and that caller holds c.mu
C1_OneOperationAtATime ==
  /\ \A p \in Callers : InWandSection(p) => Holds(p)
  /\ \A p, q \in Callers : InWandSection(p) /\ InWandSection(q) => p = q

\* a caller holds a wand while another caller is blocked on the mutex
C1_Witness ==
  \E p, q \in Callers :
     /\ p # q /\ InWandSection(p) /\ wands[p] # {}
     /\ AtLock(q) /\ call[q].op = "ConvertPdfToImages"

\* C2: when a call returns and its deferred Destroy calls have run, every
\* engine handle it created has been destroyed (the code leaves the page wand
\* of pdfWand.GetImage() alive)
C2_AllHandlesDestroyed ==
  \A p \in Callers : Returning(p) /\ ~PendingDestroy(p) => wands[p] = {}

\* C3: a caller whose call is over does not hold c.mu, a caller asking for
\* c.mu does not hold it already, and every caller is idle again and again:
\* wherever it is in a call, waiting for c.mu included, it gets to run and
\* to return
C3_LockReleasedAndProgress ==
  /\ [](\A p \in Callers : pc[p] = "idle" => ~Holds(p))
  /\ [](\A p \in Callers : AtLock(p) => ~Holds(p))
  /\ \A p \in Callers : []<>(pc[p] = "idle")

\* a call that failed validation under the mutex is about to run its
\* deferred Unlock while another caller waits for the mutex
C3_Witness ==
  \E p, q \in Callers :
     /\ p # q /\ Returning(p) /\ call[p].op = "ResizeImage"
     /\ ret[p].err = ErrInvalidInput /\ Holds(p) /\ defers[p] = <<Unlock>>
     /\ AtLock(q)

BadSize(c) ==
  \/ c.op = "ResizeImage" /\ (c.width = 0 \/ c.height = 0)
  \/ c.op \in {"ResizeByHeight", "ResizeByWidth"} /\ c.target <= 0

\* C4: ResizeImage with a zero width or height, and ResizeByHeight /
\* ResizeByWidth with a target <= 0, return ErrInvalidInput whatever the
\* other arguments are
C4_BadSizeIsInvalidInput ==
  \A p \in Callers : Returning(p) /\ BadSize(call[p]) => ret[p].err = ErrInvalidInput

C4_Witness ==
  /\ Returning(1) /\ call[1].op = "ResizeImage" /\ call[1].width = 0
  /\ call[1].r = "failing reader" /\ call[1].w = "failing writer"
  /\ ret[1].err = ErrInvalidInput

\* C5: ResizeImageFile with a zero width or height returns ErrInvalidInput
\* and reaches neither the decode nor the resize step (the code does not
\* check the size)
C5_ResizeImageFileChecksSize ==
  \A p \in Callers :
     call[p].op = "ResizeImageFile" /\ (call[p].width = 0 \/ call[p].height = 0)
       => /\ Returning(p) => ret[p].err = ErrInvalidInput
          /\ Range(log[p]) \cap {"ReadImage", "ResizeImage"} = {}

ArgMissing(c) ==
  \/ c.op \in {"ResizeImage", "ConvertFormat"} /\ (c.r = NilStream \/ c.w = NilStream)
  \/ c.op \in {"OpenImage", "GetImageMetadata"} /\ c.inputPath.name = ""
  \/ /\ c.op \in {"ResizeImageFile", "ResizeByHeight", "ResizeByWidth",
                  "ConvertPdfToImages"}
     /\ (c.inputPath.name = "" \/ c.outputPath.name = "")

\* C6: a nil reader, a nil writer or an empty path makes the call return
\* ErrInvalidInput with no wand created and no engine or I/O call made
C6_MissingArgumentIsInvalidInput ==
  \A p \in Callers :
     ArgMissing(call[p])
       => /\ log[p] = <<>>
          /\ wands[p] = {}
          /\ Returning(p) => ret[p].err = ErrInvalidInput

C6_Witness ==
  /\ Returning(1) /\ call[1].op = "ConvertFormat"
  /\ call[1].r = "image bytes" /\ call[1].w = NilStream /\ call[1].format = "png"
  /\ ret[1].err = ErrInvalidInput

UndecodableSource(c) ==
  /\ c.r \notin {NilStream, "failing reader"} /\ ~Decodable(c.r)
  /\ c.w # NilStream
  /\ \/ c.op = "ResizeImage" /\ c.width > 0 /\ c.height > 0
     \/ c.op = "ConvertFormat" /\ c.format # ""

\* C7: ResizeImage and ConvertFormat, given otherwise valid arguments and
\* bytes the engine cannot decode, return ErrProcessing
C7_UndecodableIsProcessingError ==
  \A p \in Callers :
     Returning(p) /\ UndecodableSource(call[p]) => ret[p].err = ErrProcessing

C7_Witness ==
  /\ Returning(1) /\ call[1].op = "ResizeImage" /\ UndecodableSource(call[1])
  /\ ret[1].err = ErrProcessing

\* C8: in ResizeImage and ConvertFormat an empty encoded result makes the
\* call return ErrProcessing, and a call that returns nil has written one
\* non-empty byte sequence to w
C8_EmptyResultIsProcessingError ==
  \A p \in Callers :
     call[p].op \in {"ResizeImage", "ConvertFormat"}
       => /\ Returning(p) /\ "GetImageBlob" \in Range(log[p]) /\ loc[p].blob = ""
               => ret[p].err = ErrProcessing
          /\ Returning(p) /\ ret[p].err = NoError
               => Len(dest[p]) = 1 /\ dest[p][1] # ""

C8_Witness ==
  /\ call[1].op = "ConvertFormat" /\ Returning(1)
  /\ "GetImageBlob" \in Range(log[1]) /\ loc[1].blob = ""
  /\ ret[1].err = ErrProcessing

\* C9: every error a call returns is ErrInvalidInput or ErrProcessing (the
\* code returns the reader's and the writer's error wrapped in neither)
C9_OnlyTwoErrorKinds ==
  \A p \in Callers :
     Returning(p) => ret[p].err \in {NoError, ErrInvalidInput, ErrProcessing}

MissingInput(c) ==
  /\ c.op = "ResizeByHeight"
  /\ c.inputPath.name # "" /\ c.outputPath.name # ""
  /\ c.target > 0
  /\ IsNotExist(c.inputPath)

\* C10: ResizeByHeight with non-empty paths and a positive target on a
\* missing input file returns ErrInvalidInput and makes no engine call (the
\* code has no os.Stat in ResizeByHeight: ReadImage fails instead)
C10_ResizeByHeightMissingInput ==
  \A p \in Callers :
     MissingInput(call[p])
       => /\ Returning(p) => ret[p].err = ErrInvalidInput
          /\ EngineFns(p) = {}
          /\ wands[p] = {}

\* a ResizeByWidth or ConvertPdfToImages call that passes the argument checks
\* and names a file that does not exist
MissingInputStat(c) ==
  /\ c.op \in {"ResizeByWidth", "ConvertPdfToImages"}
  /\ c.inputPath.name # "" /\ c.outputPath.name # ""
  /\ c.target > 0
  /\ IsNotExist(c.inputPath)

\* C11: ResizeByWidth and ConvertPdfToImages with non-empty paths and a
\* positive target on a missing input file return ErrInvalidInput, create no
\* wand and call no engine function
C11_MissingInputIsInvalidInput ==
  \A p \in Callers :
     MissingInputStat(call[p])
       => /\ Returning(p) => ret[p].err = ErrInvalidInput
          /\ EngineFns(p) = {}
          /\ wands[p] = {}

C11_Witness ==
  /\ Returning(1) /\ call[1].op = "ConvertPdfToImages" /\ MissingInputStat(call[1])
  /\ call[1].maxPages = 1 /\ call[1].createMontage
  /\ log[1] = <<"os.Stat">>
  /\ ret[1].err = ErrInvalidInput

\* q is n / d rounded to the nearest integer
Nearest(n, d, q) == 2 * (IF n >= q * d THEN n - q * d ELSE q * d - n) <= d

\* C12: ResizeByHeight asks the engine for width round(W * targetHeight / H)
\* and height targetHeight, ResizeByWidth for width targetWidth and height
\* round(H * targetWidth / W), W x H being the size the wand reports; q is
\* n / d rounded to the nearest integer when 2 * |n - q * d| <= d (a tie may
\* go either way).  The code divides on integers, which truncates.
C12_AspectIsRounded ==
  \A p \in Callers :
     "ResizeImage" \in Range(log[p])
       => /\ call[p].op = "ResizeByHeight"
               => /\ loc[p].reqHeight = call[p].target
                  /\ Nearest(loc[p].imageWidth * call[p].target,
                             loc[p].imageHeight, loc[p].reqWidth)
          /\ call[p].op = "ResizeByWidth"
               => /\ loc[p].reqWidth = call[p].target
                  /\ Nearest(loc[p].imageHeight * call[p].target,
                             loc[p].imageWidth, loc[p].reqHeight)

\* a ConvertPdfToImages call that read the PDF and is returning
PagesDone(p) ==
  /\ Returning(p)
  /\ call[p].op = "ConvertPdfToImages"
  /\ "GetNumberImages" \in Range(log[p])

\* the name and the content of the files written, without their sizes
FileNames(p) == {[path |-> f.path, suffix |-> f.suffix, pages |-> f.pages] : f \in files[p]}

PageFile(c, n, k) ==
  [path |-> c.outputPath.name, suffix |-> IF n > 1 THEN k ELSE 0, pages |-> <<k>>]

\* C13 (as claimed): without montage, a call that decoded the PDF has written
\* N files when it returns, N being the page count after the maxPages limit:
\* one per page K = 1..N with _page<K> in its name when N > 1, one with the
\* output path as it is when N = 1
C13_OneFilePerPage ==
  \A p \in Callers :
     PagesDone(p) /\ ~call[p].createMontage
       => FileNames(p) = {PageFile(call[p], loc[p].numPages, k) : k \in 1..loc[p].numPages}

\* the records slog.Error leaves for a page that is skipped
PageFailures ==
  {"Failed to add page image", "Failed to resize page image",
   "Failed to write page image"}

PageFailed(p, k) == \E m \in PageFailures : [msg |-> m, page |-> k - 1] \in loc[p].slog

\* C13 (amended): the files written are those of the pages whose processing
\* logged no failure to add, resize or write; the names are as claimed, and
\* the call returns nil
C13_OneFilePerGoodPage ==
  \A p \in Callers :
     PagesDone(p) /\ ~call[p].createMontage
       => /\ FileNames(p) = {PageFile(call[p], loc[p].numPages, k) :
                               k \in {j \in 1..loc[p].numPages : ~PageFailed(p, j)}}
          /\ ret[p].err = NoError

\* two pages in range, the first one failed to be written, the second one is
\* in its _page2 file
C13_Witness ==
  /\ PagesDone(1) /\ ~call[1].createMontage
  /\ loc[1].numPages = 2 /\ call[1].inputPath.pages = 2
  /\ PageFailed(1, 1)
  /\ FileNames(1) = {[path |-> "output", suffix |-> 2, pages |-> <<2>>]}

\* C14: with createMontage = true the call never writes a per-page file nor
\* a second file, and when it returns nil it has written one file, at the
\* output path as it is, whatever the number of pages in range
C14_MontageIsOneFile ==
  \A p \in Callers :
     call[p].op = "ConvertPdfToImages" /\ call[p].createMontage
       => /\ \A f \in files[p] : f.path = call[p].outputPath.name /\ f.suffix = 0
          /\ Cardinality(files[p]) <= 1
          /\ Returning(p) /\ ret[p].err = NoError => Cardinality(files[p]) = 1

C14_Witness ==
  /\ PagesDone(1) /\ call[1].createMontage /\ loc[1].numPages = 2
  /\ ret[1].err = NoError
  /\ FileNames(1) = {[path |-> "output", suffix |-> 0, pages |-> <<1, 2>>]}

\* the smaller of two integers
Min(a, b) == IF a <= b THEN a ELSE b

PagesInRange(c) ==
  IF c.maxPages > 0 THEN Min(c.maxPages, c.inputPath.pages) ELSE c.inputPath.pages

\* the pages taken from pdfWand: page i + 1 for every pageImg of index i
PagesTaken(p) == {h.idx + 1 : h \in {w \in wands[p] : w.name = "pageImg"}}

TimesCalled(p, fn) == Cardinality({k \in 1..Len(log[p]) : log[p][k] = fn})

\* C15: a call that decoded a PDF of `total` pages has taken from it the
\* pages 1..min(maxPages, total) when maxPages > 0 and 1..total when
\* maxPages = 0, each once, and has added them to mw in document order
C15_PagesInRange ==
  \A p \in Callers :
     PagesDone(p) /\ call[p].maxPages >= 0
       => /\ loc[p].numPages = PagesInRange(call[p])
          /\ PagesTaken(p) = 1..PagesInRange(call[p])
          /\ TimesCalled(p, "AddImage") = PagesInRange(call[p])
          /\ \A a, b \in 1..Len(loc[p].mwPages) :
                a < b => loc[p].mwPages[a] < loc[p].mwPages[b]

\* the largest document, cut to all of its pages but the last
C15_Witness ==
  /\ PagesDone(1)
  /\ call[1].inputPath.pages = MaxPdfPages /\ call[1].maxPages = MaxPdfPages - 1
  /\ PagesTaken(1) = 1..(MaxPdfPages - 1)
  /\ loc[1].mwPages = [k \in 1..(MaxPdfPages - 1) |-> k]

\* a call without montage one of whose pages was skipped
SomePageFailed(p) ==
  /\ call[p].op = "ConvertPdfToImages" /\ ~call[p].createMontage
  /\ \E k \in 1..MaxPdfPages : PageFailed(p, k)

\* C16: without montage, a page that fails to be added, resized or written
\* does not end the call: no error is set, every page in range is still
\* taken from the PDF, and the call returns nil, also when every page failed
C16_PageFailureIsNotFatal ==
  \A p \in Callers :
     SomePageFailed(p)
       => /\ ret[p].err = NoError
          /\ Returning(p) => PagesTaken(p) = 1..loc[p].numPages

\* both pages failed, the first when added and the second when resized; no
\* file was written and the call returns nil
C16_Witness ==
  /\ PagesDone(1) /\ ~call[1].createMontage /\ loc[1].numPages = 2
  /\ [msg |-> "Failed to add page image", page |-> 0] \in loc[1].slog
  /\ [msg |-> "Failed to resize page image", page |-> 1] \in loc[1].slog
  /\ files[1] = {}
  /\ PagesTaken(1) = {1, 2}
  /\ ret[1].err = NoError

\* the montage was handed to WriteImage and no file came of it
MontageWriteFailed(p) ==
  /\ call[p].op = "ConvertPdfToImages" /\ call[p].createMontage
  /\ "WriteImage" \in Range(log[p])
  /\ files[p] = {}

\* C17: with createMontage = true, once montageWand.WriteImage has been
\* called and has written nothing, the call returns ErrProcessing; it does
\* not return nil
C17_MontageWriteFailureIsFatal ==
  \A p \in Callers :
     MontageWriteFailed(p) => Returning(p) /\ ret[p].err = ErrProcessing

C17_Witness ==
  /\ MontageWriteFailed(1) /\ loc[1].numPages = 2 /\ loc[1].mwPages = <<1, 2>>
  /\ Returning(1) /\ ret[1].err = ErrProcessing

\* C18: a failed AutoOrientImage is logged and is not returned: no error is
\* set by the step and the method goes on with its next statement (in
\* OpenImage, the return of the metadata with nil)
OrientFailed(p) == [msg |-> "Auto-orientation failed", page |-> NoPage] \in loc[p].slog

JustOriented(p) == log[p] # <<>> /\ log[p][Len(log[p])] = "AutoOrientImage"

OrientFailureIsNotReturned(p) ==
  JustOriented(p)
    => /\ ret[p].err = NoError
       /\ Returning(p) => call[p].op \in {"OpenImage", "GetImageMetadata"}

\* the size ResizeByHeight / ResizeByWidth ask of the engine for an image of
\* w x h pixels
RequestFor(c, w, h) ==
  IF c.op = "ResizeByHeight"
    THEN <<AspectDim(Int32(w), c.target, Int32(h)), Uint(c.target)>>
    ELSE <<Uint(c.target), AspectDim(Int32(h), c.target, Int32(w))>>

Resizing(p) ==
  /\ call[p].op \in {"ResizeByHeight", "ResizeByWidth"}
  /\ "ResizeImage" \in Range(log[p])

\* C18 (as claimed): ... and the call does what it does when AutoOrientImage
\* succeeds, so that its result is the same: the size asked of the engine is
\* the one computed from the sides of the re-oriented image
C18_SameResultWhenOrientFails ==
  \A p \in Callers :
     OrientFailed(p)
       => /\ OrientFailureIsNotReturned(p)
          /\ Resizing(p)
               => <<loc[p].reqWidth, loc[p].reqHeight>> =
                    LET o == AutoOriented([imgWidth |-> call[p].inputPath.width,
                                           imgHeight |-> call[p].inputPath.height,
                                           imgOrient |-> call[p].inputPath.orient])
                    IN RequestFor(call[p], o.imgWidth, o.imgHeight)

\* C18 (amended): ... and the call works on the image as decoded, not
\* rotated: the size asked of the engine is computed from its sides
C18_OrientFailureIsIgnored ==
  \A p \in Callers :
     OrientFailed(p)
       => /\ OrientFailureIsNotReturned(p)
          /\ Resizing(p)
               => <<loc[p].reqWidth, loc[p].reqHeight>> =
                    RequestFor(call[p], call[p].inputPath.width, call[p].inputPath.height)

\* a rotated image whose orientation failed is resized and written, and the
\* call returns nil
C18_Witness ==
  /\ Returning(1) /\ OrientFailed(1) /\ call[1].op = "ResizeByHeight"
  /\ call[1].inputPath.orient = 6
  /\ files[1] # {}
  /\ ret[1].err = NoError

\* every call of f in the log is before every call of g
Before(p, f, g) ==
  \A a, b \in 1..Len(log[p]) : log[p][a] = f /\ log[p][b] = g => a < b

\* C19: OpenImage that returns nil returns the width, the height and the
\* EXIF orientation of the file as decoded, and a format name; they are read
\* before AutoOrientImage is called, so a file with orientation 6 gives
\* orientation 6 and its own sides, not the swapped ones
C19_MetaIsOfSourceAsDecoded ==
  \A p \in Callers :
     Returning(p) /\ call[p].op = "OpenImage" /\ ret[p].err = NoError
       => /\ call[p].inputPath.decodable
          /\ ret[p].meta.ImageWidth = call[p].inputPath.width
          /\ ret[p].meta.ImageHeight = call[p].inputPath.height
          /\ ret[p].meta.ExifOrientation = call[p].inputPath.orient
          /\ ret[p].meta.FormatName # ""
          /\ "AutoOrientImage" \in Range(log[p])
          /\ \A f \in {"GetImageFormat", "GetImageWidth", "GetImageHeight",
                       "GetOrientation"} : Before(p, f, "AutoOrientImage")

\* a 3 x 1 file with orientation 6: the wand's image has been turned, the
\* metadata returned is that of the file
C19_Witness ==
  /\ Returning(1) /\ call[1].op = "OpenImage" /\ ret[1].err = NoError
  /\ call[1].inputPath.orient = 6
  /\ call[1].inputPath.width = 3 /\ call[1].inputPath.height = 1
  /\ loc[1].imgOrient = 1 /\ loc[1].imgWidth = 1 /\ loc[1].imgHeight = 3
  /\ ret[1].meta.ExifOrientation = 6
  /\ ret[1].meta.ImageWidth = 3 /\ ret[1].meta.ImageHeight = 1

\* m describes the file at path as it is on disk
MetaOfSource(path, m) ==
  /\ m.ImageWidth = path.width
  /\ m.ImageHeight = path.height
  /\ m.ExifOrientation = path.orient
  /\ m.FormatName # ""

OpenImageResult(path, r) ==
  IF path.name = ""
    THEN r.err = ErrInvalidInput /\ r.meta = ZeroMeta
    ELSE IF ~(path.exists /\ path.decodable)
           THEN r.err = ErrProcessing /\ r.meta = ZeroMeta
           ELSE \/ r.err = NoError /\ MetaOfSource(path, r.meta)
                \/ r.err = ErrProcessing /\ r.meta = ZeroMeta

\* C20: GetImageMetadata and OpenImage return the same for every path:
\* ErrInvalidInput with a zero ImageMeta for the empty path, ErrProcessing
\* with a zero ImageMeta for a missing or undecodable file (and when the
\* engine fails to read a good one), nil with the metadata of the file
\* otherwise
C20_GetImageMetadataIsOpenImage ==
  \A p \in Callers :
     Returning(p) /\ call[p].op \in {"OpenImage", "GetImageMetadata"}
       => /\ OpenImageResult(call[p].inputPath, ret[p])
          /\ Holds(p)

\* GetImageMetadata on a missing file
C20_Witness ==
  /\ Returning(1) /\ call[1].op = "GetImageMetadata"
  /\ call[1].inputPath = MissingPath
  /\ log[1] = <<"NewMagickWand", "ReadImage">>
  /\ ret[1] = [err |-> ErrProcessing, meta |-> ZeroMeta]


\* a ConvertFormat call whose format argument is the empty string
EmptyFormat(c) == c.op = "ConvertFormat" /\ c.format = ""

\* C21: ConvertFormat with an empty format returns ErrInvalidInput whatever r
\* and w are; the call reads nothing from r, creates no wand, calls no engine
\* function and writes nothing to w
C21_EmptyFormatIsInvalidInput ==
  \A p \in Callers :
     EmptyFormat(call[p])
       => /\ Returning(p) => ret[p].err = ErrInvalidInput
          /\ log[p] = <<>>
          /\ wands[p] = {}
          /\ dest[p] = <<>>

\* a good reader and a good writer, and no format
C21_Witness ==
  /\ Returning(1) /\ EmptyFormat(call[1])
  /\ call[1].r = "image bytes" /\ call[1].w = "writer"
  /\ ret[1].err = ErrInvalidInput


\* a ConvertPdfToImages call with an empty path or a target height that is
\* not positive
BadPdfArguments(c) ==
  /\ c.op = "ConvertPdfToImages"
  /\ \/ c.inputPath.name = ""
     \/ c.outputPath.name = ""
     \/ c.target <= 0

\* C22: ConvertPdfToImages with an empty input path, an empty output path or
\* a target height <= 0 returns ErrInvalidInput, for every maxPages and
\* createMontage; the call creates no wand, writes no file and does not even
\* look for the input file
C22_BadPdfArgumentsAreInvalidInput ==
  \A p \in Callers :
     BadPdfArguments(call[p])
       => /\ Returning(p) => ret[p].err = ErrInvalidInput
          /\ wands[p] = {}
          /\ files[p] = {}
          /\ log[p] = <<>>

\* a negative target height on a good two-page PDF, montage asked for
C22_Witness ==
  /\ Returning(1) /\ BadPdfArguments(call[1])
  /\ call[1].target = -1
  /\ call[1].inputPath.decodable /\ call[1].inputPath.pages = 2
  /\ call[1].outputPath = OutPath
  /\ call[1].maxPages = 1 /\ call[1].createMontage
  /\ ret[1].err = ErrInvalidInput


\* the steps of ResizeImage, in the order of the method
ResizeImageSteps(c) ==
  <<"NewMagickWand", "io.ReadAll", "ReadImageBlob", "AutoOrientImage", "ResizeImage",
    "SetImageCompressionQuality">>
  \o (IF c.format # "" THEN <<"SetImageFormat">> ELSE <<>>)
  \o <<"GetImageBlob", "w.Write">>

IsPrefix(s, t) == Len(s) <= Len(t) /\ s = SubSeq(t, 1, Len(s))

\* what p's call has done before its deferred Destroy calls
StepsDone(p) == SelectSeq(log[p], LAMBDA f : f # "Destroy")

\* the last step p's call has taken
LastStep(p) == StepsDone(p)[Len(StepsDone(p))]

\* step f of p's call has been taken and has not failed: the call went on to
\* a later step, or returns nil
Succeeded(p, f) ==
  /\ f \in Range(log[p])
  /\ LastStep(p) # f \/ (Returning(p) /\ ret[p].err = NoError)

\* C23: the steps ResizeImage has taken are the first ones of: decode
\* (io.ReadAll, ReadImageBlob), auto-orient, resize to width x height, set
\* the quality to 95, set the format (when one is given), encode, write; a
\* failed step other than auto-orient is the last one; the image is resized
\* to the size asked, the quality is 95 once set; w is written at most once,
\* as the last step, with the encoded image
C23_ResizeImageStepsInOrder ==
  \A p \in Callers :
     call[p].op = "ResizeImage"
       => /\ IsPrefix(StepsDone(p), ResizeImageSteps(call[p]))
          /\ Returning(p) /\ ret[p].err # NoError /\ StepsDone(p) # <<>>
               => LastStep(p) # "AutoOrientImage"
          /\ Returning(p) /\ ret[p].err = NoError
               => StepsDone(p) = ResizeImageSteps(call[p])
          /\ Succeeded(p, "ReadImageBlob") => Decodable(loc[p].data)
          /\ Succeeded(p, "ResizeImage")
               => loc[p].reqWidth = call[p].width /\ loc[p].reqHeight = call[p].height
          /\ Succeeded(p, "SetImageCompressionQuality") => loc[p].quality = 95
          /\ Succeeded(p, "GetImageBlob") => loc[p].blob # ""
          /\ Len(dest[p]) <= 1
          /\ dest[p] # <<>> => LastStep(p) = "w.Write"
          /\ Succeeded(p, "w.Write") => dest[p] = <<loc[p].blob>>

\* a rotated image whose auto-orientation failed, resized with no format
\* given: every step but SetImageFormat was taken, and w was written once
C23_Witness ==
  /\ Returning(1) /\ call[1].op = "ResizeImage" /\ ret[1].err = NoError
  /\ call[1].format = "" /\ call[1].r = "rotated image bytes"
  /\ OrientFailed(1)
  /\ StepsDone(1) = <<"NewMagickWand", "io.ReadAll", "ReadImageBlob", "AutoOrientImage",
                      "ResizeImage", "SetImageCompressionQuality", "GetImageBlob",
                      "w.Write">>
  /\ dest[1] = <<"encoded">>


\* C24: in ConvertPdfToImages a page is flattened (MergeImageLayers over a
\* white background) and auto-oriented before it is used: without montage,
\* every page that is resized or written was flattened and auto-oriented
\* first; with montage, every page in mw was flattened and auto-oriented
\* when MontageImage composes them.  The code does both only inside
\* `if !createMontage`.
C24_PagesFlattenedBeforeUse ==
  \A p \in Callers :
     call[p].op = "ConvertPdfToImages"
       => /\ ~call[p].createMontage
               => /\ TimesCalled(p, "ResizeImage") <= TimesCalled(p, "AutoOrientImage")
                  /\ TimesCalled(p, "AutoOrientImage") <= TimesCalled(p, "MergeImageLayers")
                  /\ TimesCalled(p, "WriteImage") <= TimesCalled(p, "ResizeImage")
          /\ call[p].createMontage /\ "MontageImage" \in Range(log[p])
               => /\ TimesCalled(p, "MergeImageLayers") = Len(loc[p].mwPages)
                  /\ TimesCalled(p, "AutoOrientImage") = Len(loc[p].mwPages)


\* C25: the engine is terminated by Close on client k only when no operation
\* of client k is in progress: no caller holds k's mutex or a handle it made
\* in a call on k.  Close does not take c.mu, so it never waits.
C25_CloseWaitsForOperations ==
  [][\A p \in Callers, k \in Clients :
        Close(p, k) => /\ mu[k] = NoOne
                       /\ \A q \in Callers : call[q].c = k => wands[q] = {}]_vars


\* C26 (as claimed): two callers whose calls are on different clients are
\* never both between creating their first engine handle and destroying
\* their last one
C26_OneOperationPerProcess ==
  \A p, q \in Callers :
     call[p].c # call[q].c => ~(InWandSection(p) /\ InWandSection(q))


\* C26 (amended): callers whose calls are on the same client are never both
\* between creating their first engine handle and destroying their last one,
\* and a caller that is there holds the mutex of its client; callers on
\* different clients can be
C26_OneOperationPerClient ==
  /\ \A p \in Callers : InWandSection(p) => mu[call[p].c] = p
  /\ \A p, q \in Callers :
        p # q /\ call[p].c = call[q].c => ~(InWandSection(p) /\ InWandSection(q))

\* two callers hold a wand each at the same moment, in calls on two clients,
\* each with the mutex of its client
C26_Witness ==
  /\ call[1].c = 1 /\ call[2].c = 2
  /\ InWandSection(1) /\ InWandSection(2)
  /\ wands[1] # {} /\ wands[2] # {}
  /\ mu = [c \in Clients |-> IF c <= 2 THEN c ELSE NoOne]


\* the steps of p's call that come before w.Write have all been taken
ReadyToWrite(p) ==
  /\ {"io.ReadAll", "ReadImageBlob", "SetImageCompressionQuality", "GetImageBlob"}
       \subseteq Range(log[p])
  /\ call[p].op = "ResizeImage" => "ResizeImage" \in Range(log[p])
  /\ call[p].format # "" => "SetImageFormat" \in Range(log[p])
  /\ call[p].r # NilStream /\ call[p].w # NilStream
  /\ Decodable(loc[p].data)
  /\ loc[p].blob # ""

\* C27: a ResizeImage or ConvertFormat call that returns ErrInvalidInput or
\* ErrProcessing has not called w.Write and has written nothing to w; Write
\* is called only after the validation, the decoding, the transformation and
\* the encoding have succeeded with a result that is not empty
C27_NothingWrittenOnError ==
  \A p \in Callers :
     call[p].op \in {"ResizeImage", "ConvertFormat"}
       => /\ Returning(p) /\ ret[p].err \in {ErrInvalidInput, ErrProcessing}
               => "w.Write" \notin Range(log[p]) /\ dest[p] = <<>>
          /\ "w.Write" \in Range(log[p]) => ReadyToWrite(p)
          /\ dest[p] # <<>> => "w.Write" \in Range(log[p])

\* ConvertFormat whose encoding gave an empty result, with a writer that
\* would have failed
C27_Witness ==
  /\ Returning(1) /\ call[1].op = "ConvertFormat" /\ ret[1].err = ErrProcessing
  /\ call[1].w = "failing writer"
  /\ LastStep(1) = "GetImageBlob" /\ loc[1].blob = ""
  /\ dest[1] = <<>>


\* the source page a file of a call over n pages is named after: the K of
\* its _page<K>, page 1 for the output path as it is
PageNamed(f, n) == IF n > 1 THEN f.suffix ELSE 1

\* C28: without montage, the image taken from mw in iteration i is source
\* page i + 1, and every file written holds the one page it is named after,
\* also when mw.AddImage failed for an earlier page, so that mw holds fewer
\* images than i + 1
C28_FileHoldsItsPage ==
  \A p \in Callers :
     call[p].op = "ConvertPdfToImages" /\ ~call[p].createMontage
       => /\ loc[p].curPage # 0 => loc[p].curPage = loc[p].i + 1
          /\ \A f \in files[p] : f.pages = <<PageNamed(f, loc[p].numPages)>>

\* the first page could not be added to mw: the second one is mw's image 0,
\* it is asked for as image 1 and is written to the _page2 file
C28_Witness ==
  /\ PagesDone(1) /\ ~call[1].createMontage /\ loc[1].numPages = 2
  /\ [msg |-> "Failed to add page image", page |-> 0] \in loc[1].slog
  /\ loc[1].mwPages = <<2>>
  /\ \E f \in files[1] : f.suffix = 2 /\ f.pages = <<2>>


\* p's call read an image whose sides are at least 1, with a positive target
GoodSource(p) ==
  /\ call[p].inputPath.width >= 1 /\ call[p].inputPath.height >= 1
  /\ call[p].target > 0

\* C29: for an image with sides >= 1 and a positive target, ResizeByHeight,
\* ResizeByWidth and ConvertPdfToImages without montage ask the engine for a
\* width and a height that are at least 1.  The quotient the code computes
\* is 0 as soon as side * target < other side.
C29_SizeAskedIsPositive ==
  \A p \in Callers :
     GoodSource(p)
       => /\ Resizing(p) /\ LastStep(p) = "ResizeImage"
               => loc[p].reqWidth >= 1 /\ loc[p].reqHeight >= 1
          /\ pc[p] = "ConvertPdfToImages_ResizeImage"
               => /\ AspectDim(loc[p].imageWidth, call[p].target, loc[p].imageHeight) >= 1
                  /\ Uint(call[p].target) >= 1


\* p's call is on an image whose sides fit an int32, with a positive target
\* that fits an int32
FitsInt32(p) ==
  /\ call[p].inputPath.width \in 1..MaxInt32
  /\ call[p].inputPath.height \in 1..MaxInt32
  /\ call[p].target \in 1..MaxInt32

\* C30: for sides and a target that fit an int32, the size ResizeByHeight and
\* ResizeByWidth ask of the engine is the quotient side * target / other side
\* taken over the integers, and int32(target) is target.  The product is
\* taken in int32 and wraps around beyond the largest int32.
C30_AspectDoesNotOverflow ==
  \A p \in Callers :
     FitsInt32(p) /\ Resizing(p) /\ LastStep(p) = "ResizeImage"
       => /\ Int32(call[p].target) = call[p].target
          /\ call[p].op = "ResizeByHeight"
               => /\ loc[p].reqWidth =
                       (loc[p].imageWidth * call[p].target) \div loc[p].imageHeight
                  /\ loc[p].reqHeight = call[p].target
          /\ call[p].op = "ResizeByWidth"
               => /\ loc[p].reqWidth = call[p].target
                  /\ loc[p].reqHeight =
                       (loc[p].imageHeight * call[p].target) \div loc[p].imageWidth

====
